---- MODULE Spec2Model ----
(***************************************************************************)
(* near-sdk-sim: the standalone runtime (runtime.rs) and the compiled      *)
(* contract cache (cache.rs) as state machines.                            *)
(*                                                                         *)
(* The Engine (near_runtime::Runtime::apply), the Store (ShardTries) and   *)
(* the transaction pool (near_pool) are crates the runtime calls; they are *)
(* modelled by what they hand back through the calls in runtime.rs.        *)
(***************************************************************************)
EXTENDS Integers, Sequences, FiniteSets, TLC

VARIABLES
    genesis,            \* RuntimeStandalone.genesis (GenesisConfig)
    cur_block,          \* RuntimeStandalone.cur_block
    tx_pool,            \* RuntimeStandalone.tx_pool: the hashes of the pooled transactions
    transactions,       \* RuntimeStandalone.transactions: the hashes recorded
    outcomes,           \* RuntimeStandalone.outcomes: id -> ExecutionOutcome
    profile,            \* RuntimeStandalone.profile: id -> ProfileData
    pending_receipts,   \* RuntimeStandalone.pending_receipts
    last_outcomes,      \* RuntimeStandalone.last_outcomes
    tries,              \* RuntimeStandalone.tries: state root -> committed state
    engine,             \* what the Engine keeps inside the state: postponed receipts, next receipt id
    op,                 \* the orchestration method in progress ("idle" between calls)
    outcome_hash,       \* resolve_tx: the key being followed
    num_left,           \* produce_blocks: iterations left
    result,             \* what the last finished method returned
    last_apply,         \* the last runtime.apply call: what went in and what came out
    errors,             \* number of produce_block calls in which the Engine failed
    n_blocks,           \* number of produce_block calls that returned Ok
    n_forced,           \* number of force_account_update calls
    call,               \* bookkeeping of the method in progress (blocks produced, hops, waits)
    cache_data,         \* ContractCache.data of the cache object in use
    disk,               \* the files of the cache directory: key -> bytes
    cache_ret,          \* what the last cache operation returned
    threads,            \* the threads that call the cache: where each is in its call
    put_log,            \* the values put by the threads, and the put completed last
    owned,              \* the Block values alive: owner -> prev_block (an Arc or None)
    arcs,               \* the Arc<Block> allocations: id -> prev_block and strong count
    drop_stack          \* the calls of Block::drop in progress, innermost first

vars == <<genesis, cur_block, tx_pool, transactions, outcomes, profile,
          pending_receipts, last_outcomes, tries, engine, op, outcome_hash,
          num_left, result, last_apply, errors, n_blocks, n_forced, call, cache_data,
          disk,
          cache_ret, threads, put_log, owned, arcs, drop_stack>>

runtimeVars == <<genesis, cur_block, tx_pool, transactions, outcomes, profile,
                 pending_receipts, last_outcomes, tries, engine, op, outcome_hash,
                 num_left, result, last_apply, errors, n_blocks, n_forced, call>>

cacheVars == <<cache_data, disk, cache_ret>>

threadVars == <<threads, put_log>>

dropVars == <<owned, arcs, drop_stack>>

(***************************************************************************)
(* Bounds of the model.                                                    *)
(***************************************************************************)
MaxTx == 2          \* transactions a test submits
MaxChildren == 3    \* receipts that executing receipts create
MaxBlocks == 3      \* blocks produced by direct produce_block(s)/process_all calls
MaxNum == 2         \* largest argument of produce_blocks
MaxErrors == 1      \* Engine errors in one run
MaxLocked == 1      \* largest account value
MaxForced == 1      \* calls of force_account_update in one run
MaxKeys == 2        \* keys of the contract cache
MaxCodeLen == 1     \* longest compiled code, in bytes
MaxThreads == 2     \* threads that share a cache
MaxCalls == 2       \* cache calls of one thread
MaxChain == 5       \* blocks produced in a chain that is torn down

(***************************************************************************)
(* Program constants.                                                      *)
(***************************************************************************)
DEFAULT_EPOCH_LENGTH == 3
\* 1_000_000_000 ns; the model counts time in seconds
DEFAULT_BLOCK_PROD_TIME == 1
\* calls of Block::drop nested at most: the drop of the value released and,
\* inside its loop, the drop of `next`
DropDepth == 2

(***************************************************************************)
(* Small helpers.                                                          *)
(***************************************************************************)
None == <<>>
Some(v) == <<v>>

Range(s) == {s[i] : i \in 1..Len(s)}

EmptyMap == [x \in {} |-> 0]

MapPut(m, k, v) == [x \in DOMAIN m \cup {k} |-> IF x = k THEN v ELSE m[x]]

Min(S) == CHOOSE x \in S : \A y \in S : x <= y

RECURSIVE SortedSeq(_)
SortedSeq(S) == IF S = {} THEN <<>> ELSE <<Min(S)>> \o SortedSeq(S \ {Min(S)})

(***************************************************************************)
(* Identifiers. A transaction is identified with its hash 1..MaxTx; the    *)
(* Engine turns transaction t into the receipt RcptOf(t); receipts created *)
(* by executing receipts get the ids after those.                          *)
(***************************************************************************)
TxIds == 1..MaxTx
RcptOf(t) == MaxTx + t
FirstChild == 2 * MaxTx + 1
LastId == 2 * MaxTx + MaxChildren
Ids == 1..LastId

\* the pool's lane of a transaction: its (signer, public key); the nonce is t.
\* Transactions 1 and 2 are of one signer, later ones of others.
SignerOf(t) == t \div 3

(***************************************************************************)
(* The state behind a state root: account -> Option<Account>.              *)
(***************************************************************************)
Accounts == {"root", "alice"}
AccountVals == 0..MaxLocked
States == [Accounts -> {None} \cup {Some(v) : v \in AccountVals}]

\* the trie root is a hash of the content: equal states, equal roots
CodeOf(o) == IF o = None THEN 0 ELSE o[1] + 1
RootOf(st) == 1 + CodeOf(st["root"]) + (MaxLocked + 2) * CodeOf(st["alice"])
DefaultHash == 0

\* genesis.state_records after init_root_signer: the root account
GenesisState == [a \in Accounts |-> IF a = "root" THEN Some(0) ELSE None]

(***************************************************************************)
(* GenesisConfig and Block.                                                *)
(***************************************************************************)
\* the configurations a test constructs the runtime with: the default one
\* (genesis_height 1, epoch_length 3) and ones with other heights and lengths
GenesisConfigs ==
    { [genesis_time |-> 0, gas_price |-> 100, gas_limit |-> 1000,
       genesis_height |-> h, epoch_length |-> l,
       block_prod_time |-> DEFAULT_BLOCK_PROD_TIME] :
         <<h, l>> \in {<<1, DEFAULT_EPOCH_LENGTH>>, <<3, 2>>} }

\* Block::genesis
BlockGenesis(genesis_config) ==
    [ prev_block      |-> None,
      state_root      |-> DefaultHash,
      block_height    |-> genesis_config.genesis_height,
      epoch_height    |-> 0,
      block_timestamp |-> genesis_config.genesis_time,
      gas_price       |-> genesis_config.gas_price,
      gas_limit       |-> genesis_config.gas_limit,
      gas_burnt       |-> 0 ]

\* Block::produce that links the new block to the predecessor of self
BlockProduce_SkipsSelf(self, new_state_root, epoch_length, block_prod_time) ==
    [ gas_price       |-> self.gas_price,
      gas_limit       |-> self.gas_limit,
      block_timestamp |-> self.block_timestamp + block_prod_time,
      prev_block      |-> self.prev_block,
      state_root      |-> new_state_root,
      block_height    |-> self.block_height + 1,
      epoch_height    |-> (self.block_height + 1) \div epoch_length,
      gas_burnt       |-> 0 ]

\* Block::produce
BlockProduce(self, new_state_root, epoch_length, block_prod_time) ==
    [ gas_price       |-> self.gas_price,
      gas_limit       |-> self.gas_limit,
      block_timestamp |-> self.block_timestamp + block_prod_time,
      prev_block      |-> Some(self),
      state_root      |-> new_state_root,
      block_height    |-> self.block_height + 1,
      epoch_height    |-> (self.block_height + 1) \div epoch_length,
      gas_burnt       |-> 0 ]

(***************************************************************************)
(* The transaction pool (near_pool). Transactions are grouped by signer;   *)
(* the pool iterator first hands out every group of the pool, then goes    *)
(* round the groups it handed out for as long as one still holds a         *)
(* transaction. A group yields its transactions in nonce order.            *)
(***************************************************************************)
\* TransactionPool::insert_transaction
PoolInsert(pool, tx) == pool \cup {tx}

\* TransactionPool::pool_iterator
PoolIterator(pool) == [pool |-> pool, sorted_groups |-> <<>>]

RECURSIVE NextSortedGroup(_)
NextSortedGroup(it) ==
    IF it.sorted_groups = <<>> THEN [found |-> FALSE, it |-> it]
    ELSE LET g == Head(it.sorted_groups) IN
         IF g = {}
         THEN NextSortedGroup([it EXCEPT !.sorted_groups = Tail(@)])
         ELSE [found |-> TRUE,
               it |-> [it EXCEPT !.sorted_groups = Append(Tail(@), g)]]

\* PoolIterator::next that hands out every group once and then stops
PoolIteratorNext_OnePerGroup(it) ==
    IF it.pool # {}
    THEN LET key == Min({SignerOf(t) : t \in it.pool})
             group == {t \in it.pool : SignerOf(t) = key}
         IN [found |-> TRUE,
             it |-> [pool |-> it.pool \ group,
                     sorted_groups |-> Append(it.sorted_groups, group)]]
    ELSE [found |-> FALSE, it |-> it]

\* PoolIterator::next: the group handed out is the last of sorted_groups
PoolIteratorNext(it) ==
    IF it.pool # {}
    THEN LET key == Min({SignerOf(t) : t \in it.pool})
             group == {t \in it.pool : SignerOf(t) = key}
         IN [found |-> TRUE,
             it |-> [pool |-> it.pool \ group,
                     sorted_groups |-> Append(it.sorted_groups, group)]]
    ELSE NextSortedGroup(it)

\* dropping the iterator puts the transactions not taken back into the pool
PoolIteratorDrop(it) ==
    it.pool \cup UNION Range(it.sorted_groups)

\* RuntimeStandalone::prepare_transactions: [res, tx_pool afterwards]
RECURSIVE PrepareLoop(_, _)
PrepareLoop(pool_iter, res) ==
    LET n == PoolIteratorNext(pool_iter) IN
    IF ~n.found THEN [res |-> res, tx_pool |-> PoolIteratorDrop(n.it)]
    ELSE LET k == Len(n.it.sorted_groups)
             iter == n.it.sorted_groups[k]
         IN IF iter = {} THEN PrepareLoop(n.it, res)
            ELSE LET tx == Min(iter) IN
                 PrepareLoop([n.it EXCEPT !.sorted_groups[k] = iter \ {tx}],
                             Append(res, tx))

prepare_transactions(pool) == PrepareLoop(PoolIterator(pool), <<>>)

(***************************************************************************)
(* The Engine: runtime.apply(trie, state_root, .., incoming receipts,      *)
(* transactions, ..). What it does with a call is its own business; the    *)
(* model lets it choose (the choice is the "script" of the call):          *)
(*   - to fail, or else                                                    *)
(*   - for every transaction, whether its receipt is local (executed in    *)
(*     this call) or outgoing,                                             *)
(*   - which of the incoming and the postponed receipts it executes now    *)
(*     (the others stay postponed inside the state),                       *)
(*     (the others stay postponed inside the state; the receipt of a       *)
(*     transaction waits for no data and is never postponed),              *)
(*   - for every executed receipt its status and whether it creates a      *)
(*     receipt (outgoing).                                                 *)
(* A receipt that ends with a value writes the account "alice"; the        *)
(* outcome of a receipt carries profiling data (V2) when its id is even,   *)
(* the outcome of a transaction never does.                                *)
(* Ids are never reused: a receipt is executed at most once.               *)
(***************************************************************************)
Status(kind, id) == [kind |-> kind, id |-> id]

Outcome(status, meta) == [status |-> status, metadata |-> meta]

NoOutcome == Outcome(Status("None", 0), "V1")

Behaviours ==
    { [status |-> s, children |-> c] :
        s \in {"SuccessValue", "Failure", "SuccessReceiptId"}, c \in 0..1 }

MetadataOf(r) == IF r % 2 = 0 THEN "V2" ELSE "V1"

\* what executing receipt r with status kind writes
WriteOf(state, r, kind) ==
    IF kind = "SuccessValue"
    THEN [state EXCEPT !["alice"] = Some(r % (MaxLocked + 1))]
    ELSE state

\* a receipt that continues as another receipt creates that receipt; one that
\* ends with a value or fails creates nothing more than it reports
WellFormed(b) ==
    IF b.status = "SuccessReceiptId" THEN b.children >= 1 ELSE b.children = 0

\* the outcome of a transaction: it continues as its receipt
TxOutcome(t) ==
    [id |-> t, outcome |-> Outcome(Status("SuccessReceiptId", RcptOf(t)), "V1")]

RECURSIVE TxOutcomes(_)
TxOutcomes(txs) ==
    IF txs = <<>> THEN <<>> ELSE <<TxOutcome(Head(txs))>> \o TxOutcomes(Tail(txs))

RECURSIVE TxReceipts(_, _, _)
TxReceipts(txs, local, want_local) ==
    IF txs = <<>> THEN <<>>
    ELSE (IF (Head(txs) \in local) = want_local THEN <<RcptOf(Head(txs))>> ELSE <<>>)
         \o TxReceipts(Tail(txs), local, want_local)

RECURSIVE Chosen(_, _)
Chosen(seq, S) ==
    IF seq = <<>> THEN <<>>
    ELSE (IF Head(seq) \in S THEN <<Head(seq)>> ELSE <<>>) \o Chosen(Tail(seq), S)

\* executing the receipts of list one after the other; a receipt created gets
\* the next id, and the receipt that created it continues as it
RECURSIVE Exec(_, _, _, _, _, _)
Exec(list, beh, next, outs, outgoing, state) ==
    IF list = <<>>
    THEN [outcomes |-> outs, outgoing |-> outgoing, next |-> next, state |-> state]
    ELSE LET r == Head(list)
             b == beh[r]
             kids == [i \in 1..b.children |-> next + i - 1]
             st == IF b.status = "SuccessReceiptId"
                   THEN Status("SuccessReceiptId", kids[b.children])
                   ELSE Status(b.status, 0)
         IN Exec(Tail(list), beh, next + b.children,
                 Append(outs, [id |-> r, outcome |-> Outcome(st, MetadataOf(r))]),
                 outgoing \o kids, WriteOf(state, r, b.status))

\* the receipts a call may execute besides the local ones, in order
Candidates(eng, incoming) == incoming \o SortedSeq(eng.postponed \ Range(incoming))

\* the receipts among them that may wait for data: those created by receipts
Postponable(cands) == {r \in Range(cands) : r >= FirstChild}

\* a successful apply under a script
EngineApply(eng, state, incoming, txs, local, run, beh) ==
    LET cands == Candidates(eng, incoming)
        list  == TxReceipts(txs, local, TRUE) \o Chosen(cands, run)
        ex    == Exec(list, beh, eng.next_receipt, TxOutcomes(txs),
                      TxReceipts(txs, local, FALSE), state)
    IN [ outgoing_receipts |-> ex.outgoing,
         outcomes          |-> ex.outcomes,
         trie_changes      |-> ex.state,
         state_root        |-> RootOf(ex.state),
         executed          |-> list,
         engine            |-> [postponed |-> Range(cands) \ run,
                                next_receipt |-> ex.next] ]

(***************************************************************************)
(* RuntimeStandalone.                                                      *)
(***************************************************************************)
\* ReplacePending that adds the outgoing receipts to the queue
ReplacePending_Appends(pending, outgoing) == pending \o outgoing

\* ReplacePending that leaves the queue as it is
ReplacePending_Keeps(pending, outgoing) == pending

\* produce_block, line 323: the outgoing receipts replace the pending ones
ReplacePending(pending, outgoing) == outgoing

\* RecordOutcomes that records a profile whatever the metadata
RECURSIVE RecordOutcomes_ProfilesAll(_, _, _, _)
RecordOutcomes_ProfilesAll(outs, lo, oc, pf) ==
    IF outs = <<>> THEN [last_outcomes |-> lo, outcomes |-> oc, profile |-> pf]
    ELSE LET o == Head(outs) IN
         RecordOutcomes_ProfilesAll(Tail(outs),
                        Append(lo, o.id),
                        MapPut(oc, o.id, o.outcome),
                        MapPut(pf, o.id, o.id))

\* produce_block, lines 324-334: for each outcome, push its id, record it,
\* and record its profile when the metadata is V2
RECURSIVE RecordOutcomes(_, _, _, _)
RecordOutcomes(outs, lo, oc, pf) ==
    IF outs = <<>> THEN [last_outcomes |-> lo, outcomes |-> oc, profile |-> pf]
    ELSE LET o == Head(outs) IN
         RecordOutcomes(Tail(outs),
                        Append(lo, o.id),
                        MapPut(oc, o.id, o.outcome),
                        IF o.outcome.metadata = "V2"
                        THEN MapPut(pf, o.id, o.id) ELSE pf)

\* ShardTries::apply_all + commit: the changes are stored under their root
StoreCommit(tr, changes) == MapPut(tr, RootOf(changes), changes)

\* ProduceBlockErr that moves on to the next block all the same
ProduceBlockErr_AdvancesBlock ==
    LET prep == prepare_transactions(tx_pool) IN
    /\ errors < MaxErrors
    /\ prep.res # <<>>
    /\ tx_pool' = prep.tx_pool
    /\ errors' = errors + 1
    /\ last_apply' = [ok |-> FALSE, state_root |-> cur_block.state_root,
                      receipts |-> pending_receipts, txs |-> prep.res,
                      outgoing |-> last_apply.outgoing, outcomes |-> <<>>]
    /\ cur_block' = BlockProduce(cur_block, cur_block.state_root,
                                 genesis.epoch_length, genesis.block_prod_time)
    /\ UNCHANGED <<genesis, n_forced, transactions, outcomes, profile,
                   pending_receipts, last_outcomes, tries, engine, n_blocks>>

\* the Engine rejects a transaction of the batch (InvalidTxError):
\* produce_block returns at the `?` of line 322; last_apply keeps the outgoing
\* receipts of the last apply that succeeded
ProduceBlockErr ==
    LET prep == prepare_transactions(tx_pool) IN
    /\ errors < MaxErrors
    /\ prep.res # <<>>
    /\ tx_pool' = prep.tx_pool
    /\ errors' = errors + 1
    /\ last_apply' = [ok |-> FALSE, state_root |-> cur_block.state_root,
                      receipts |-> pending_receipts, txs |-> prep.res,
                      outgoing |-> last_apply.outgoing, outcomes |-> <<>>]
    /\ UNCHANGED <<genesis, n_forced, cur_block, transactions, outcomes, profile,
                   pending_receipts, last_outcomes, tries, engine, n_blocks>>

\* an Engine call that starts from the root of the predecessor block
ApplyRoot_Predecessor(block) ==
    IF block.prev_block = None THEN block.state_root
    ELSE block.prev_block[1].state_root

\* produce_block, line 315: the root the Engine call starts from
ApplyRoot(block) == block.state_root

\* the Engine succeeds under the script (local, run, beh)
ProduceBlockOk(local, run, beh) ==
    LET prep == prepare_transactions(tx_pool)
        res  == EngineApply(engine, tries[ApplyRoot(cur_block)], pending_receipts,
                            prep.res, local, run, beh)
        rec  == RecordOutcomes(res.outcomes, last_outcomes, outcomes, profile)
    IN
    /\ res.engine.next_receipt <= LastId + 1
    /\ tx_pool' = prep.tx_pool
    /\ pending_receipts' = ReplacePending(pending_receipts, res.outgoing_receipts)
    /\ last_outcomes' = rec.last_outcomes
    /\ outcomes' = rec.outcomes
    /\ profile' = rec.profile
    /\ tries' = StoreCommit(tries, res.trie_changes)
    /\ cur_block' = BlockProduce(cur_block, res.state_root,
                                 genesis.epoch_length, genesis.block_prod_time)
    /\ engine' = res.engine
    /\ last_apply' = [ok |-> TRUE, state_root |-> ApplyRoot(cur_block),
                      receipts |-> pending_receipts, txs |-> prep.res,
                      outgoing |-> res.outgoing_receipts, outcomes |-> res.outcomes]
    /\ n_blocks' = n_blocks + 1
    /\ UNCHANGED <<genesis, n_forced, transactions, errors>>

\* produce_block: one Engine call, whatever the Engine does with it
ProduceBlock ==
    \/ ProduceBlockErr
    \/ LET txs   == prepare_transactions(tx_pool).res
           cands == Candidates(engine, pending_receipts)
       IN \E local \in SUBSET Range(txs), wait \in SUBSET Postponable(cands) :
            \E beh \in [ {RcptOf(t) : t \in local} \cup (Range(cands) \ wait)
                           -> {b \in Behaviours : WellFormed(b)} ] :
              ProduceBlockOk(local, Range(cands) \ wait, beh)

(***************************************************************************)
(* ContractCache (cache.rs). A CompiledContract is a compilation error or  *)
(* the compiled code; its serialization is a tag byte followed by the      *)
(* payload, the code being preceded by its length. A file is the sequence  *)
(* of its bytes; a key has a file when it is in the domain of disk.        *)
(***************************************************************************)
Keys == 1..MaxKeys

Bytes == 0..1

CompileModuleError(e) == [kind |-> "CompileModuleError", bytes |-> <<e>>]

Code(c) == [kind |-> "Code", bytes |-> c]

CompiledContracts ==
    {CompileModuleError(e) : e \in {0}} \cup
    {Code(c) : c \in UNION {[1..n -> Bytes] : n \in 0..MaxCodeLen}}

\* io::Result
Ok(v) == [ok |-> TRUE, val |-> v]
Err == [ok |-> FALSE, val |-> None]

\* BorshSerialize::try_to_vec
try_to_vec(value) ==
    IF value.kind = "CompileModuleError"
    THEN <<0>> \o value.bytes
    ELSE <<1, Len(value.bytes)>> \o value.bytes

\* BorshDeserialize::try_from_slice: an error unless the bytes are exactly
\* one serialized value
try_from_slice(contents) ==
    IF contents = <<>> THEN Err
    ELSE IF contents[1] = 0
    THEN IF Len(contents) = 2 THEN Ok(CompileModuleError(contents[2])) ELSE Err
    ELSE IF contents[1] = 1 /\ Len(contents) >= 2 /\ Len(contents) = 2 + contents[2]
    THEN Ok(Code(SubSeq(contents, 3, Len(contents))))
    ELSE Err

\* write_all on a file opened without truncate or append: the bytes go to
\* the start of the file, what lies beyond them stays
write_all(file, buf) == buf \o SubSeq(file, Len(buf) + 1, Len(file))

\* put, lines 67-71: the file after the call
PutFile(file, serialized) ==
    IF Len(file) # Len(serialized) THEN write_all(file, serialized) ELSE file

\* the record of a cache operation: which, on which key, with which value,
\* what it returned, and whether the cache object was replaced since
CacheRet(cop, key, value, res, fresh) ==
    [op |-> cop, key |-> key, value |-> value, res |-> res, fresh |-> fresh]

NoCacheRet == CacheRet("none", 0, None, Ok(None), FALSE)

\* ContractCache::insert
CacheInsert(key, value) ==
    /\ cache_data' = MapPut(cache_data, key, value)
    /\ cache_ret' = CacheRet("insert", key, Some(value),
                             Ok(IF key \in DOMAIN cache_data
                                THEN Some(cache_data[key]) ELSE None), FALSE)
    /\ UNCHANGED disk
    /\ UNCHANGED <<runtimeVars, dropVars, threadVars>>

\* ContractCache::get
CacheGet(key) ==
    /\ cache_ret' = CacheRet("get", key, None,
                             Ok(IF key \in DOMAIN cache_data
                                THEN Some(cache_data[key]) ELSE None), FALSE)
    /\ UNCHANGED <<cache_data, disk>>
    /\ UNCHANGED <<runtimeVars, dropVars, threadVars>>

\* CompiledContractCache::put
CachePut(key, value) ==
    LET file == IF key \in DOMAIN disk THEN disk[key] ELSE <<>>
        serialized == try_to_vec(value)
    IN
    /\ cache_data' = MapPut(cache_data, key, value)
    /\ disk' = MapPut(disk, key, PutFile(file, serialized))
    /\ cache_ret' = CacheRet("put", key, Some(value), Ok(None), FALSE)
    /\ UNCHANGED <<runtimeVars, dropVars, threadVars>>

\* CompiledContractCache::get that looks at the file before the mapping
CacheGetPersistent_DiskFirst(key) ==
    /\ IF key \in DOMAIN disk /\ try_from_slice(disk[key]).ok
       THEN /\ cache_data' = MapPut(cache_data, key, try_from_slice(disk[key]).val)
            /\ cache_ret' = CacheRet("get_persistent", key, cache_ret.value,
                                     Ok(Some(try_from_slice(disk[key]).val)),
                                     cache_ret.fresh)
       ELSE /\ cache_ret' = CacheRet("get_persistent", key, cache_ret.value,
                                     Ok(IF key \in DOMAIN cache_data
                                        THEN Some(cache_data[key]) ELSE None),
                                     cache_ret.fresh)
            /\ UNCHANGED cache_data
    /\ UNCHANGED disk
    /\ UNCHANGED <<runtimeVars, dropVars, threadVars>>

\* CompiledContractCache::get
CacheGetPersistent(key) ==
    /\ IF key \in DOMAIN cache_data
       THEN /\ cache_ret' = CacheRet("get_persistent", key, cache_ret.value,
                                     Ok(Some(cache_data[key])), cache_ret.fresh)
            /\ UNCHANGED cache_data
       ELSE IF key \in DOMAIN disk
       THEN LET value == try_from_slice(disk[key]) IN
            IF value.ok
            THEN /\ cache_data' = MapPut(cache_data, key, value.val)
                 /\ cache_ret' = CacheRet("get_persistent", key, cache_ret.value,
                                          Ok(Some(value.val)), cache_ret.fresh)
            ELSE /\ cache_ret' = CacheRet("get_persistent", key, cache_ret.value,
                                          Err, cache_ret.fresh)
                 /\ UNCHANGED cache_data
       ELSE /\ cache_ret' = CacheRet("get_persistent", key, cache_ret.value,
                                     Ok(None), cache_ret.fresh)
            /\ UNCHANGED cache_data
    /\ UNCHANGED disk
    /\ UNCHANGED <<runtimeVars, dropVars, threadVars>>

\* create_cache: the cache object is replaced by a new one, with an empty
\* mapping and the same directory
CreateCache ==
    /\ cache_data' = EmptyMap
    /\ cache_ret' = [cache_ret EXCEPT !.fresh = TRUE]
    /\ UNCHANGED disk
    /\ UNCHANGED <<runtimeVars, dropVars, threadVars>>

NextCache ==
    \/ \E key \in Keys, value \in CompiledContracts : CacheInsert(key, value)
    \/ \E key \in Keys : CacheGet(key)
    \/ \E key \in Keys, value \in CompiledContracts : CachePut(key, value)
    \/ \E key \in Keys : CacheGetPersistent(key)
    \/ CreateCache

(***************************************************************************)
(* The cache on a filesystem that fails. A call meets at most one failure, *)
(* at one of the filesystem calls it makes.                                *)
(***************************************************************************)
\* the calls of put that can fail: create_dir_all and open (open_file, lines
\* 35 and 37), file.metadata (line 67), file.write_all (line 70)
PutFaults == {"create_dir_all", "open", "metadata", "write_all"}

\* the calls of get_persistent that can fail: Path::exists (line 45, false
\* when the metadata cannot be read), create_dir_all and open (open_file),
\* file.read_to_end (line 82)
GetFaults == {"exists", "create_dir_all", "open", "read_to_end"}

\* a panic: unwrap or expect on an error, the call does not return
Panic == [ok |-> FALSE, val |-> None, panic |-> TRUE]

\* the record of a cache operation that met a failure
CacheFaultRet(cop, key, value, res, fresh, fault) ==
    [op |-> cop, key |-> key, value |-> value, res |-> res, fresh |-> fresh,
     fault |-> fault]

\* CompiledContractCache::put when the filesystem call `fault` fails
CachePutFault(key, value, fault) ==
    LET exists == key \in DOMAIN disk
        file == IF exists THEN disk[key] ELSE <<>>
        serialized == try_to_vec(value)
    IN
    /\ fault = "write_all" => Len(file) # Len(serialized)
    /\ cache_data' = MapPut(cache_data, key, value)
    /\ CASE fault = "create_dir_all" ->
              \* line 35: unwrap
              /\ disk' = disk
              /\ cache_ret' = CacheFaultRet("put", key, Some(value), Panic, FALSE, fault)
         [] fault = "open" ->
              \* line 66: expect("File failed to open")
              /\ disk' = disk
              /\ cache_ret' = CacheFaultRet("put", key, Some(value), Panic, FALSE, fault)
         [] fault = "metadata" ->
              \* line 67: `?`, the file is there, created empty if it was not
              /\ disk' = MapPut(disk, key, file)
              /\ cache_ret' = CacheFaultRet("put", key, Some(value), Err, FALSE, fault)
         [] fault = "write_all" ->
              \* line 70: `?`, some of the bytes may have been written
              /\ \E n \in 0..(Len(serialized) - 1) :
                    disk' = MapPut(disk, key, write_all(file, SubSeq(serialized, 1, n)))
              /\ cache_ret' = CacheFaultRet("put", key, Some(value), Err, FALSE, fault)
    /\ UNCHANGED <<runtimeVars, dropVars, threadVars>>

\* CompiledContractCache::get when the filesystem call `fault` fails; the
\* key is not in the mapping and has a file
CacheGetPersistentFault(key, fault) ==
    /\ key \notin DOMAIN cache_data
    /\ key \in DOMAIN disk
    /\ cache_ret' = CacheFaultRet("get_persistent", key, cache_ret.value,
                                  CASE fault = "exists" -> Ok(None)
                                    [] fault = "create_dir_all" -> Panic
                                    [] fault = "open" -> Err
                                    [] fault = "read_to_end" -> Err,
                                  cache_ret.fresh, fault)
    /\ UNCHANGED <<cache_data, disk>>
    /\ UNCHANGED <<runtimeVars, dropVars, threadVars>>

NextCacheFaults ==
    \/ NextCache
    \/ \E key \in Keys, value \in CompiledContracts, fault \in PutFaults :
          CachePutFault(key, value, fault)
    \/ \E key \in Keys, fault \in GetFaults : CacheGetPersistentFault(key, fault)

(***************************************************************************)
(* Threads of one process that share a ContractCache and call put and      *)
(* get_persistent on one key. The mutex makes each operation on the        *)
(* mapping one step; each filesystem call is a step of its own.            *)
(***************************************************************************)
Threads == 1..MaxThreads

\* the key the threads call the cache with
SharedKey == 1

\* a thread: where it is (pc), the value it puts, the length and the contents
\* it has read, what its last call returned, the calls it has made
Thread(pc, value, len, contents, ret, calls) ==
    [pc |-> pc, value |-> value, len |-> len, contents |-> contents,
     ret |-> ret, calls |-> calls]

IdleThread == Thread("idle", None, 0, <<>>, None, 0)

NoPuts == [started |-> {}, last |-> None]

\* a thread calls put(SharedKey, value)
ThreadPut(t, value) ==
    /\ threads[t].pc = "idle"
    /\ threads[t].calls < MaxCalls
    /\ threads' = [threads EXCEPT ![t] =
                      Thread("put_insert", Some(value), 0, <<>>, @.ret, @.calls + 1)]
    /\ put_log' = [put_log EXCEPT !.started = @ \cup {value}]
    /\ UNCHANGED <<runtimeVars, dropVars, cacheVars>>

\* a thread calls get_persistent(SharedKey)
ThreadGetPersistent(t) ==
    /\ threads[t].pc = "idle"
    /\ threads[t].calls < MaxCalls
    /\ threads' = [threads EXCEPT ![t] =
                      Thread("get_contains_key", None, 0, <<>>, @.ret, @.calls + 1)]
    /\ UNCHANGED <<runtimeVars, dropVars, cacheVars, put_log>>

\* the thread returns res from its call
Return(t, res) ==
    [threads EXCEPT ![t] = Thread("idle", @.value, 0, <<>>, Some(res), @.calls)]

\* the thread moves on to pc
Goto(t, pc) == [threads EXCEPT ![t].pc = pc]

\* put, step by step
ThreadPutStep(t) ==
    LET th == threads[t]
        serialized == try_to_vec(th.value[1])
    IN
    /\ CASE th.pc = "put_insert" ->
              \* line 65
              /\ cache_data' = MapPut(cache_data, SharedKey, th.value[1])
              /\ threads' = Goto(t, "put_open")
              /\ UNCHANGED <<disk, put_log>>
         [] th.pc = "put_open" ->
              \* line 66: the file is created, empty, when it is not there
              /\ disk' = IF SharedKey \in DOMAIN disk THEN disk
                         ELSE MapPut(disk, SharedKey, <<>>)
              /\ threads' = Goto(t, "put_metadata")
              /\ UNCHANGED <<cache_data, put_log>>
         [] th.pc = "put_metadata" ->
              \* line 67
              /\ threads' = [threads EXCEPT ![t].pc = "put_write",
                                            ![t].len = Len(disk[SharedKey])]
              /\ UNCHANGED <<cache_data, disk, put_log>>
         [] th.pc = "put_write" ->
              \* lines 68-72
              /\ disk' = IF th.len # Len(serialized)
                         THEN MapPut(disk, SharedKey,
                                     write_all(disk[SharedKey], serialized))
                         ELSE disk
              /\ threads' = Return(t, Ok(None))
              /\ put_log' = [put_log EXCEPT !.last = th.value]
              /\ UNCHANGED cache_data
         [] OTHER -> FALSE
    /\ UNCHANGED <<runtimeVars, dropVars, cache_ret>>

\* get_persistent, step by step
ThreadGetStep(t) ==
    LET th == threads[t] IN
    /\ CASE th.pc = "get_contains_key" ->
              \* line 77
              /\ threads' = Goto(t, IF SharedKey \in DOMAIN cache_data
                                    THEN "get_get" ELSE "get_file_exists")
              /\ UNCHANGED cache_data
         [] th.pc = "get_get" ->
              \* line 78
              /\ threads' = Return(t, Ok(IF SharedKey \in DOMAIN cache_data
                                         THEN Some(cache_data[SharedKey]) ELSE None))
              /\ UNCHANGED cache_data
         [] th.pc = "get_file_exists" ->
              \* line 79, and line 87 when there is no file
              /\ threads' = IF SharedKey \in DOMAIN disk
                            THEN Goto(t, "get_read") ELSE Return(t, Ok(None))
              /\ UNCHANGED cache_data
         [] th.pc = "get_read" ->
              \* lines 80-82
              /\ threads' = [threads EXCEPT ![t].pc = "get_insert",
                                            ![t].contents = disk[SharedKey]]
              /\ UNCHANGED cache_data
         [] th.pc = "get_insert" ->
              \* lines 83-85
              LET value == try_from_slice(th.contents) IN
              IF value.ok
              THEN /\ cache_data' = MapPut(cache_data, SharedKey, value.val)
                   /\ threads' = Return(t, Ok(Some(value.val)))
              ELSE /\ threads' = Return(t, Err)
                   /\ UNCHANGED cache_data
         [] OTHER -> FALSE
    /\ UNCHANGED <<runtimeVars, dropVars, disk, cache_ret, put_log>>

NextThreads ==
    \/ \E t \in Threads, value \in CompiledContracts : ThreadPut(t, value)
    \/ \E t \in Threads : ThreadGetPersistent(t)
    \/ \E t \in Threads : ThreadPutStep(t)
    \/ \E t \in Threads : ThreadGetStep(t)

(***************************************************************************)
(* Block teardown (impl Drop for Block). A Block value is owned by the     *)
(* runtime (cur_block) or by a test that cloned it; its ancestors live in  *)
(* Arc allocations, each with a strong count. Dropping a Block value runs  *)
(* Block::drop; a call in progress is a frame of drop_stack.               *)
(***************************************************************************)
ArcIds == 1..MaxChain

MapRemove(m, k) == [x \in DOMAIN m \ {k} |-> m[x]]

\* a call of Block::drop: the local `curr` and the iterations made
Frame(curr, released) == [curr |-> curr, released |-> released]

\* next.prev_block.take() on the derived drop: nothing is taken, the field
\* is left for the drop of `next`
TakePrev_Leaves(prev) == [taken |-> None, left |-> prev]

\* line 138, next.prev_block.take(): what the loop gets, what the field holds
\* afterwards
TakePrev(prev) == [taken |-> prev, left |-> None]

\* a try_unwrap that gives the block whoever else holds the Arc
TryUnwrap_Always(strong_count) == TRUE

\* line 137, Arc::try_unwrap(it).ok(): the block is given when this Arc is
\* the only strong reference
TryUnwrap(strong_count) == strong_count = 1

\* produce_block, lines 340-344, as far as the chain goes: the new block
\* holds an Arc of a clone of cur_block (line 166), the old value of
\* cur_block is dropped; its drop finds the strong count of its predecessor
\* at 2 (the clone holds it too) and stops at once
DropProduce ==
    /\ drop_stack = <<>>
    /\ "cur_block" \in DOMAIN owned
    /\ \E a \in ArcIds :
          /\ a \notin DOMAIN arcs
          /\ \A b \in ArcIds : b < a => b \in DOMAIN arcs
          /\ arcs' = MapPut(arcs, a, [prev |-> owned["cur_block"], rc |-> 1])
          /\ owned' = [owned EXCEPT !["cur_block"] = Some(a)]
    /\ UNCHANGED drop_stack
    /\ UNCHANGED <<runtimeVars, cacheVars, threadVars>>

\* a test clones the current block: current_block().clone()
CloneBlock ==
    /\ drop_stack = <<>>
    /\ "cur_block" \in DOMAIN owned
    /\ "clone" \notin DOMAIN owned
    /\ owned' = MapPut(owned, "clone", owned["cur_block"])
    /\ arcs' = IF owned["cur_block"] = None THEN arcs
               ELSE [arcs EXCEPT ![owned["cur_block"][1]].rc = @ + 1]
    /\ UNCHANGED drop_stack
    /\ UNCHANGED <<runtimeVars, cacheVars, threadVars>>

\* a Block value goes out of scope: Block::drop is called, line 136
Release(owner) ==
    /\ drop_stack = <<>>
    /\ owner \in DOMAIN owned
    /\ owned' = MapRemove(owned, owner)
    /\ drop_stack' = <<Frame(owned[owner], 0)>>
    /\ UNCHANGED arcs
    /\ UNCHANGED <<runtimeVars, cacheVars, threadVars>>

\* Block::drop, one evaluation of the loop condition of line 137 and, when
\* it holds, the body and the drop of `next` at the end of the iteration
DropStep ==
    /\ drop_stack # <<>>
    /\ LET f == Head(drop_stack) IN
       IF f.curr = None
       THEN \* the loop ends, drop returns
            /\ drop_stack' = Tail(drop_stack)
            /\ UNCHANGED arcs
       ELSE LET a == f.curr[1] IN
            IF TryUnwrap(arcs[a].rc)
            THEN \* Arc::try_unwrap gives the block; its prev_block is taken
                 \* and the block is dropped
                 LET t == TakePrev(arcs[a].prev) IN
                 /\ arcs' = MapRemove(arcs, a)
                 /\ drop_stack' = <<Frame(t.left, 0)>>
                                     \o <<Frame(t.taken, f.released + 1)>>
                                     \o Tail(drop_stack)
            ELSE \* the ancestor is shared: the Arc is released, the loop ends
                 /\ arcs' = [arcs EXCEPT ![a].rc = @ - 1]
                 /\ drop_stack' = <<Frame(None, f.released)>> \o Tail(drop_stack)
    /\ UNCHANGED owned
    /\ UNCHANGED <<runtimeVars, cacheVars, threadVars>>

NextDrop ==
    \/ DropProduce
    \/ CloneBlock
    \/ \E owner \in {"cur_block", "clone"} : Release(owner)
    \/ DropStep

(***************************************************************************)
(* The public methods. A method that loops over produce_block takes one    *)
(* step per iteration; op says which method is in progress.                *)
(***************************************************************************)
Ret(method, kind, id, outcome) ==
    [method |-> method, kind |-> kind, id |-> id, outcome |-> outcome]

\* what the model remembers of the call in progress: the transaction resolved,
\* the transactions queued at its start, the blocks, hops and waits so far
NoCall == [tx |-> 0, queued |-> {}, blocks |-> 0, hops |-> 0, waits |-> 0]

\* GenesisConfig::default, as far as the blocks read it
DefaultGenesis ==
    CHOOSE g \in GenesisConfigs :
        g.genesis_height = 1 /\ g.epoch_length = DEFAULT_EPOCH_LENGTH

\* RuntimeStandalone::new
New(genesis_configs) ==
    /\ genesis \in genesis_configs
    /\ cur_block = [BlockGenesis(genesis) EXCEPT !.state_root = RootOf(GenesisState)]
    /\ tries = StoreCommit(EmptyMap, GenesisState)
    /\ transactions = {}
    /\ outcomes = EmptyMap
    /\ profile = EmptyMap
    /\ tx_pool = {}
    /\ pending_receipts = <<>>
    /\ last_outcomes = <<>>
    /\ engine = [postponed |-> {}, next_receipt |-> FirstChild]
    /\ op = "idle"
    /\ outcome_hash = 0
    /\ num_left = 0
    /\ result = Ret("none", "None", 0, NoOutcome)
    /\ last_apply = [ok |-> TRUE, state_root |-> DefaultHash, receipts |-> <<>>,
                     txs |-> <<>>, outgoing |-> <<>>, outcomes |-> <<>>]
    /\ errors = 0
    /\ n_blocks = 0
    /\ n_forced = 0
    /\ call = NoCall
    /\ cache_data = EmptyMap
    /\ disk = EmptyMap
    /\ cache_ret = NoCacheRet
    /\ threads = [t \in Threads |-> IdleThread]
    /\ put_log = NoPuts
    /\ owned = [o \in {"cur_block"} |-> None]
    /\ arcs = EmptyMap
    /\ drop_stack = <<>>

\* send_tx that records the transaction and leaves the pool as it is
SendTx_SkipsPool(tx) ==
    /\ op = "idle"
    /\ tx \notin transactions
    /\ transactions' = transactions \cup {tx}
    /\ result' = Ret("send_tx", "Hash", tx, NoOutcome)
    /\ UNCHANGED <<genesis, n_forced, cur_block, tx_pool, outcomes, profile,
                   pending_receipts, last_outcomes, tries, engine, op,
                   outcome_hash, num_left, last_apply, errors, n_blocks, call>>
    /\ UNCHANGED <<cacheVars, threadVars, dropVars>>

\* send_tx
SendTx(tx) ==
    /\ op = "idle"
    /\ tx \notin transactions
    /\ transactions' = transactions \cup {tx}
    /\ tx_pool' = PoolInsert(tx_pool, tx)
    /\ result' = Ret("send_tx", "Hash", tx, NoOutcome)
    /\ UNCHANGED <<genesis, n_forced, cur_block, outcomes, profile, pending_receipts,
                   last_outcomes, tries, engine, op, outcome_hash, num_left,
                   last_apply, errors, n_blocks, call>>
    /\ UNCHANGED <<cacheVars, threadVars, dropVars>>

\* resolve_tx, lines 238-242
ResolveTx(tx) ==
    /\ op = "idle"
    /\ tx \notin transactions
    /\ outcome_hash' = tx
    /\ transactions' = transactions \cup {tx}
    /\ tx_pool' = PoolInsert(tx_pool, tx)
    /\ last_outcomes' = <<>>
    /\ op' = "resolve_tx"
    /\ call' = [NoCall EXCEPT !.tx = tx]
    /\ UNCHANGED <<genesis, n_forced, cur_block, outcomes, profile, pending_receipts,
                   tries, engine, num_left, result, last_apply, errors,
                   n_blocks>>
    /\ UNCHANGED <<cacheVars, threadVars, dropVars>>

\* ResolveMatch with the SuccessReceiptId arm returning instead of following
ResolveMatch_ReturnsLink(oc, key, pending) ==
    IF key \in DOMAIN oc
    THEN [do |-> "return", key |-> key]
    ELSE IF pending = <<>>
    THEN [do |-> "lost", key |-> key]
    ELSE [do |-> "wait", key |-> key]

\* ResolveMatch without the lost-outcome arm: it keeps producing blocks
ResolveMatch_NeverGivesUp(oc, key, pending) ==
    IF key \in DOMAIN oc
    THEN CASE oc[key].status.kind = "SuccessReceiptId" ->
                [do |-> "follow", key |-> oc[key].status.id]
           [] OTHER ->
                [do |-> "return", key |-> key]
    ELSE [do |-> "wait", key |-> key]

\* ResolveMatch raising the lost outcome without looking at the pending receipts
ResolveMatch_LostIgnoresPending(oc, key, pending) ==
    IF key \in DOMAIN oc
    THEN CASE oc[key].status.kind = "SuccessReceiptId" ->
                [do |-> "follow", key |-> oc[key].status.id]
           [] OTHER ->
                [do |-> "return", key |-> key]
    ELSE [do |-> "lost", key |-> key]

\* resolve_tx, lines 245-255: what the loop does after a block, given the
\* outcome map, the key followed and the pending receipts
ResolveMatch(oc, key, pending) ==
    IF key \in DOMAIN oc
    THEN CASE oc[key].status.kind = "Unknown" ->
                [do |-> "unreachable", key |-> key]
           [] oc[key].status.kind = "SuccessReceiptId" ->
                [do |-> "follow", key |-> oc[key].status.id]
           [] oc[key].status.kind \in {"SuccessValue", "Failure"} ->
                [do |-> "return", key |-> key]
    ELSE IF pending = <<>>
    THEN [do |-> "lost", key |-> key]
    ELSE [do |-> "wait", key |-> key]

\* resolve_tx, one iteration of the loop of lines 243-256
ResolveTxStep ==
    /\ op = "resolve_tx"
    /\ ProduceBlock
    /\ IF ~last_apply'.ok
       THEN /\ result' = Ret("resolve_tx", "Err", 0, NoOutcome)
            /\ op' = "idle"
            /\ UNCHANGED <<outcome_hash, call>>
       ELSE LET m == ResolveMatch(outcomes', outcome_hash, pending_receipts') IN
            /\ outcome_hash' = m.key
            /\ call' = [call EXCEPT !.blocks = @ + 1,
                                    !.hops = IF m.do = "follow" THEN @ + 1 ELSE @,
                                    !.waits = IF m.do = "wait" THEN @ + 1 ELSE @]
            /\ CASE m.do = "return" ->
                      /\ result' = Ret("resolve_tx", "Ok", m.key, outcomes'[m.key])
                      /\ op' = "idle"
                 [] m.do = "unreachable" ->
                      /\ result' = Ret("resolve_tx", "PanicUnknown", m.key, NoOutcome)
                      /\ op' = "halted"
                 [] m.do = "lost" ->
                      /\ result' = Ret("resolve_tx", "PanicLostOutcome", m.key, NoOutcome)
                      /\ op' = "halted"
                 [] m.do \in {"follow", "wait"} ->
                      UNCHANGED <<op, result>>
    /\ UNCHANGED num_left
    /\ UNCHANGED <<cacheVars, threadVars, dropVars>>

\* process_all
ProcessAll ==
    /\ op = "idle"
    /\ n_blocks < MaxBlocks
    /\ op' = "process_all"
    /\ call' = [NoCall EXCEPT !.queued = tx_pool]
    /\ UNCHANGED <<genesis, n_forced, cur_block, tx_pool, transactions, outcomes, profile,
                   pending_receipts, last_outcomes, tries, engine, outcome_hash,
                   num_left, result, last_apply, errors, n_blocks>>
    /\ UNCHANGED <<cacheVars, threadVars, dropVars>>

\* process_all, one iteration of the loop of lines 280-285
ProcessAllStep ==
    /\ op = "process_all"
    /\ ProduceBlock
    /\ IF ~last_apply'.ok
       THEN /\ result' = Ret("process_all", "Err", 0, NoOutcome)
            /\ op' = "idle"
            /\ UNCHANGED call
       ELSE IF pending_receipts' = <<>>
       THEN /\ result' = Ret("process_all", "Ok", 0, NoOutcome)
            /\ op' = "idle"
            /\ call' = [call EXCEPT !.blocks = @ + 1]
       ELSE /\ call' = [call EXCEPT !.blocks = @ + 1]
            /\ UNCHANGED <<op, result>>
    /\ UNCHANGED <<outcome_hash, num_left>>
    /\ UNCHANGED <<cacheVars, threadVars, dropVars>>

\* produce_blocks(num_of_blocks)
ProduceBlocks(num_of_blocks) ==
    /\ op = "idle"
    /\ n_blocks < MaxBlocks
    /\ call' = NoCall
    /\ IF num_of_blocks = 0
       THEN /\ result' = Ret("produce_blocks", "Ok", 0, NoOutcome)
            /\ UNCHANGED <<op, num_left>>
       ELSE /\ op' = "produce_blocks"
            /\ num_left' = num_of_blocks
            /\ UNCHANGED result
    /\ UNCHANGED <<genesis, n_forced, cur_block, tx_pool, transactions, outcomes, profile,
                   pending_receipts, last_outcomes, tries, engine, outcome_hash,
                   last_apply, errors, n_blocks>>
    /\ UNCHANGED <<cacheVars, threadVars, dropVars>>

\* produce_blocks, one iteration of the loop of lines 362-364
ProduceBlocksStep ==
    /\ op = "produce_blocks"
    /\ ProduceBlock
    /\ IF ~last_apply'.ok
       THEN /\ result' = Ret("produce_blocks", "Err", 0, NoOutcome)
            /\ op' = "idle"
            /\ num_left' = 0
            /\ UNCHANGED call
       ELSE /\ num_left' = num_left - 1
            /\ call' = [call EXCEPT !.blocks = @ + 1]
            /\ IF num_left = 1
               THEN /\ result' = Ret("produce_blocks", "Ok", 0, NoOutcome)
                    /\ op' = "idle"
               ELSE UNCHANGED <<op, result>>
    /\ UNCHANGED outcome_hash
    /\ UNCHANGED <<cacheVars, threadVars, dropVars>>

\* produce_block called by the test itself
ProduceBlockCall ==
    /\ op = "idle"
    /\ n_blocks < MaxBlocks
    /\ ProduceBlock
    /\ result' = Ret("produce_block", IF last_apply'.ok THEN "Ok" ELSE "Err", 0, NoOutcome)
    /\ call' = NoCall
    /\ UNCHANGED <<op, outcome_hash, num_left>>
    /\ UNCHANGED <<cacheVars, threadVars, dropVars>>

\* set_account that writes the record under every account
set_account_Everywhere(state, account_id, account) ==
    [a \in Accounts |-> Some(account)]

\* set_account on a trie update: the state with the record of the account
\* replaced
set_account(state, account_id, account) ==
    [state EXCEPT ![account_id] = Some(account)]

\* force_account_update that moves on to a new block with the new root
ForceAccountUpdate_AdvancesBlock(account_id, account) ==
    LET trie_changes == set_account(tries[cur_block.state_root], account_id, account)
        new_root == RootOf(trie_changes)
    IN
    /\ op = "idle"
    /\ n_forced < MaxForced
    /\ n_forced' = n_forced + 1
    /\ tries' = StoreCommit(tries, trie_changes)
    /\ cur_block' = BlockProduce(cur_block, new_root, genesis.epoch_length,
                                 genesis.block_prod_time)
    /\ result' = Ret("force_account_update", "Unit", 0, NoOutcome)
    /\ call' = NoCall
    /\ UNCHANGED <<genesis, tx_pool, transactions, outcomes, profile,
                   pending_receipts, last_outcomes, engine, op, outcome_hash,
                   num_left, last_apply, errors, n_blocks>>
    /\ UNCHANGED <<cacheVars, threadVars, dropVars>>

\* force_account_update
ForceAccountUpdate(account_id, account) ==
    LET trie_changes == set_account(tries[cur_block.state_root], account_id, account)
        new_root == RootOf(trie_changes)
    IN
    /\ op = "idle"
    /\ n_forced < MaxForced
    /\ n_forced' = n_forced + 1
    /\ tries' = StoreCommit(tries, trie_changes)
    /\ cur_block' = [cur_block EXCEPT !.state_root = new_root]
    /\ result' = Ret("force_account_update", "Unit", 0, NoOutcome)
    /\ call' = NoCall
    /\ UNCHANGED <<genesis, tx_pool, transactions, outcomes, profile,
                   pending_receipts, last_outcomes, engine, op, outcome_hash,
                   num_left, last_apply, errors, n_blocks>>
    /\ UNCHANGED <<cacheVars, threadVars, dropVars>>

\* get_account on a trie update at the current state root
get_account(account_id) == tries[cur_block.state_root][account_id]

\* a view that empties the transaction pool
ViewFrame_DrainsPool ==
    /\ call' = NoCall
    /\ tx_pool' = {}
    /\ UNCHANGED <<genesis, n_forced, cur_block, transactions, outcomes, profile,
                   pending_receipts, last_outcomes, tries, engine, outcome_hash,
                   num_left, last_apply, errors, n_blocks>>
    /\ UNCHANGED <<cacheVars, threadVars, dropVars>>

\* what a view leaves alone: everything but the value it returns
ViewFrame ==
    /\ call' = NoCall
    /\ UNCHANGED <<genesis, n_forced, cur_block, tx_pool, transactions, outcomes, profile,
                   pending_receipts, last_outcomes, tries, engine, outcome_hash,
                   num_left, last_apply, errors, n_blocks>>
    /\ UNCHANGED <<cacheVars, threadVars, dropVars>>

\* view_account
ViewAccount(account_id) ==
    /\ op = "idle"
    /\ result' = IF get_account(account_id) = None
                 THEN Ret("view_account", "None", 0, NoOutcome)
                 ELSE Ret("view_account", "Some", get_account(account_id)[1], NoOutcome)
    /\ UNCHANGED op
    /\ ViewFrame

\* view_access_key: an account of the model has its access key from the
\* record that created it
ViewAccessKey(account_id) ==
    /\ op = "idle"
    /\ result' = IF get_account(account_id) = None
                 THEN Ret("view_access_key", "None", 0, NoOutcome)
                 ELSE Ret("view_access_key", "Some", 0, NoOutcome)
    /\ UNCHANGED op
    /\ ViewFrame

\* TrieViewer::call_function: the method of the model returns the value of
\* the account, and fails when the account does not exist
call_function(account_id) ==
    IF get_account(account_id) = None
    THEN Ret("view_method_call", "Err", 0, NoOutcome)
    ELSE Ret("view_method_call", "Ok", get_account(account_id)[1], NoOutcome)

\* view_method_call; line 404 unwraps the predecessor of the current block
ViewMethodCall(account_id) ==
    /\ op = "idle"
    /\ IF cur_block.prev_block = None
       THEN /\ result' = Ret("view_method_call", "Panic", 0, NoOutcome)
            /\ op' = "halted"
       ELSE /\ result' = call_function(account_id)
            /\ UNCHANGED op
    /\ ViewFrame

\* a test that submits transactions, produces blocks one at a time, forces
\* account records and looks at the state
NextViews ==
    \/ \E tx \in TxIds : SendTx(tx)
    \/ ProduceBlockCall
    \/ \E account_id \in Accounts, account \in AccountVals :
          ForceAccountUpdate(account_id, account)
    \/ \E account_id \in Accounts : ViewAccount(account_id)
    \/ \E account_id \in Accounts : ViewAccessKey(account_id)
    \/ \E account_id \in Accounts : ViewMethodCall(account_id)

Next ==
    \/ \E tx \in TxIds : SendTx(tx)
    \/ \E tx \in TxIds : ResolveTx(tx)
    \/ ResolveTxStep
    \/ ProcessAll
    \/ ProcessAllStep
    \/ \E n \in 0..MaxNum : ProduceBlocks(n)
    \/ ProduceBlocksStep
    \/ ProduceBlockCall

\* init_runtime(None): the default genesis
Init == New({DefaultGenesis})

Spec == Init /\ [][Next]_vars

\* init_runtime(Some(genesis_config)): any of the configurations
InitGenesis == New(GenesisConfigs)

SpecGenesis == InitGenesis /\ [][Next]_vars

\* the cache on its own: a test that only uses a ContractCache
SpecCache == Init /\ [][NextCache]_vars

\* the cache on a filesystem that fails
SpecCacheFaults == Init /\ [][NextCacheFaults]_vars

\* threads sharing a cache
SpecThreads == Init /\ [][NextThreads]_vars

\* the views and force_account_update between blocks
SpecViews == Init /\ [][NextViews]_vars

\* a chain of blocks and its teardown
SpecDrop == Init /\ [][NextDrop]_vars

(***************************************************************************)
(* C1. After N successful produce_block calls on a fresh runtime the       *)
(* current block has block_height = genesis_height + N and                 *)
(* epoch_height = (genesis_height + N) \div epoch_length, for every        *)
(* genesis height, every epoch length >= 1 and every N >= 0.               *)
(***************************************************************************)
C1_HeightAndEpoch ==
    /\ cur_block.block_height = genesis.genesis_height + n_blocks
    /\ cur_block.epoch_height =
         (genesis.genesis_height + n_blocks) \div genesis.epoch_length

(***************************************************************************)
(* C2. Whenever resolve_tx(tx) returns Ok((id, outcome)): the status of    *)
(* outcome is SuccessValue or Failure, outcome is the entry of the outcome *)
(* map under id, and id is reached from the hash of tx by following zero   *)
(* or more SuccessReceiptId links of the outcome map.                      *)
(***************************************************************************)
\* key `to` is reached from key `from` over at most n SuccessReceiptId links
RECURSIVE Linked(_, _, _)
Linked(from, to, n) ==
    \/ from = to
    \/ /\ n > 0
       /\ from \in DOMAIN outcomes
       /\ outcomes[from].status.kind = "SuccessReceiptId"
       /\ Linked(outcomes[from].status.id, to, n - 1)

\* resolve_tx(call.tx) has just returned Ok(result.id, result.outcome)
ResolveReturnedOk ==
    /\ op = "idle"
    /\ call.tx # 0
    /\ result.method = "resolve_tx"
    /\ result.kind = "Ok"

C2_ResolveOkIsTerminal ==
    ResolveReturnedOk =>
        /\ result.outcome.status.kind \in {"SuccessValue", "Failure"}
        /\ result.id \in DOMAIN outcomes
        /\ outcomes[result.id] = result.outcome
        /\ Linked(call.tx, result.id, LastId)

\* resolve_tx returned a Failure outcome found two links away from the transaction
C2_Witness ==
    /\ ResolveReturnedOk
    /\ result.outcome.status.kind = "Failure"
    /\ call.hops >= 2
    /\ result.id # call.tx

(***************************************************************************)
(* C3. resolve_tx terminates after a number of produced blocks that is     *)
(* bounded by the depth of the transaction's chain (the number of          *)
(* SuccessReceiptId hops), whatever else is in the pool or pending.        *)
(***************************************************************************)
\* number of SuccessReceiptId links from key `from` to key `to`
RECURSIVE ChainDepth(_, _, _)
ChainDepth(from, to, n) ==
    IF from = to \/ n = 0 THEN 0
    ELSE 1 + ChainDepth(outcomes[from].status.id, to, n - 1)

\* receipts created by executing receipts so far
ReceiptsCreated == engine.next_receipt - FirstChild

\* the claim as stated: one block per hop and one for the terminal outcome
C3_BlocksBoundedByHops ==
    ResolveReturnedOk =>
        call.blocks <= ChainDepth(call.tx, result.id, LastId) + 1

\* as amended: resolve_tx produces one block per hop, one per wait (a block
\* after which the key followed has no outcome yet while receipts are
\* pending) and one for the terminal outcome; a wait needs a receipt created
\* in that block, so the blocks of a call never exceed 2 + the receipts
\* created by receipts
C3_BlocksOfResolve ==
    /\ call.tx # 0 => call.blocks <= 2 + ReceiptsCreated
    /\ ResolveReturnedOk =>
         call.blocks = ChainDepth(call.tx, result.id, LastId) + call.waits + 1

\* resolve_tx returned after a block in which the receipt it followed was postponed
C3_Witness ==
    /\ ResolveReturnedOk
    /\ call.waits >= 1
    /\ call.blocks > ChainDepth(call.tx, result.id, LastId) + 1

(***************************************************************************)
(* C4. resolve_tx raises the fatal lost-outcome condition exactly when,    *)
(* after a produced block, the outcome map has no entry for the key it     *)
(* follows and the pending-receipt queue is empty; the condition ends the  *)
(* run (a panic), unlike Ok with a Failure outcome and unlike Err, which   *)
(* return to the caller.                                                   *)
(***************************************************************************)
\* the call of resolve_tx in progress ends in the lost-outcome panic
RaisesLostOutcome ==
    /\ result'.kind = "PanicLostOutcome"
    /\ op' = "halted"

C4_LostOutcomeExactlyWhen ==
    [][ /\ (op = "resolve_tx" /\ last_apply'.ok) =>
             (RaisesLostOutcome <=>
                 /\ outcome_hash \notin DOMAIN outcomes'
                 /\ pending_receipts' = <<>>)
        /\ (op = "resolve_tx" /\ ~last_apply'.ok) =>
             (result'.kind = "Err" /\ op' = "idle")
        /\ (op = "resolve_tx" /\ op' = "idle") =>
             (result'.method = "resolve_tx" /\ result'.kind \in {"Ok", "Err"})
        /\ op # "resolve_tx" => result'.kind # "PanicLostOutcome" ]_vars

\* resolve_tx panicked: the receipt it waited for is held back by the Engine
C4_Witness ==
    /\ op = "halted"
    /\ result.kind = "PanicLostOutcome"
    /\ outcome_hash \in engine.postponed
    /\ outcome_hash \notin DOMAIN outcomes
    /\ pending_receipts = <<>>

(***************************************************************************)
(* C5. When process_all returns Ok no work remains: the pending-receipt    *)
(* queue is empty, the transaction pool is empty, and every transaction    *)
(* that was waiting in the pool when process_all was called (several of    *)
(* one sender lane included) has been included in a produced block, that   *)
(* is, has an outcome recorded under its hash.                             *)
(***************************************************************************)
ProcessAllReturnedOk ==
    /\ op = "idle"
    /\ result.method = "process_all"
    /\ result.kind = "Ok"

C6_EngineErrorChangesNothing ==
    [][ errors' # errors =>
          /\ errors' = errors + 1
          /\ ~last_apply'.ok
          /\ result' = Ret(IF op = "idle" THEN "produce_block" ELSE op,
                           "Err", 0, NoOutcome)
          /\ op' = "idle"
          /\ cur_block' = cur_block
          /\ pending_receipts' = pending_receipts
          /\ outcomes' = outcomes
          /\ profile' = profile
          /\ last_outcomes' = last_outcomes ]_vars

\* process_all returned the Engine's error with receipts pending and outcomes
\* recorded
C6_Witness ==
    /\ ~last_apply.ok
    /\ op = "idle"
    /\ result.method = "process_all"
    /\ result.kind = "Err"
    /\ pending_receipts # <<>>
    /\ DOMAIN outcomes # {}

(***************************************************************************)
(* C7. Receipts cross exactly one block boundary: the receipts handed to   *)
(* the Engine in a produce_block call are, in the same order, the outgoing *)
(* receipts the Engine returned in the preceding successful produce_block  *)
(* (none for the first block); after a successful call the pending queue   *)
(* holds only the new outgoing receipts; no receipt handed over was handed *)
(* over in an earlier successful call (it has no outcome and is not held   *)
(* by the Engine), and none is handed over in the call that emitted it.    *)
(***************************************************************************)
\* the step is a call of produce_block
IsProduceBlock == n_blocks' # n_blocks \/ errors' # errors

C7_ReceiptsCrossOneBoundary ==
    [][ IsProduceBlock =>
          /\ last_apply'.receipts = last_apply.outgoing
          /\ last_apply'.ok =>
                /\ pending_receipts' = last_apply'.outgoing
                /\ Range(last_apply'.receipts) \cap
                     (DOMAIN outcomes \cup engine.postponed) = {}
                /\ Range(last_apply'.receipts) \cap Range(last_apply'.outgoing) = {}
                /\ Cardinality(Range(last_apply'.receipts)) = Len(last_apply'.receipts)
          /\ ~last_apply'.ok => pending_receipts' = pending_receipts ]_vars

\* a block was handed the receipts of the block before it and emitted new ones
C7_Witness ==
    /\ last_apply.ok
    /\ n_blocks >= 2
    /\ last_apply.receipts # <<>>
    /\ last_apply.outgoing # <<>>
    /\ pending_receipts = last_apply.outgoing

(***************************************************************************)
(* C8. After every successful produce_block each outcome id the Engine     *)
(* returned in that call is a key of the outcome map holding that outcome, *)
(* and a key of the profile map exactly when its metadata is V2; no        *)
(* operation removes a recorded outcome id from the outcome map.           *)
(***************************************************************************)
C8_OutcomesRecorded ==
    [][ /\ n_blocks' # n_blocks =>
              \A i \in 1..Len(last_apply'.outcomes) :
                  LET o == last_apply'.outcomes[i] IN
                  /\ o.id \in DOMAIN outcomes'
                  /\ outcomes'[o.id] = o.outcome
                  /\ o.id \in DOMAIN profile' <=> o.outcome.metadata = "V2"
        /\ DOMAIN outcomes \subseteq DOMAIN outcomes' ]_vars

\* a block recorded an outcome with a profile and one without
C8_Witness ==
    /\ last_apply.ok
    /\ \E i, j \in 1..Len(last_apply.outcomes) :
          /\ last_apply.outcomes[i].outcome.metadata = "V2"
          /\ last_apply.outcomes[j].outcome.metadata = "V1"
          /\ last_apply.outcomes[i].id \in DOMAIN profile
          /\ last_apply.outcomes[j].id \in DOMAIN outcomes \ DOMAIN profile

GetAfterPut ==
    /\ cache_ret.op = "put"
    /\ cache_ret'.op = "get_persistent"
    /\ cache_ret'.key = cache_ret.key

C10_PutGetRoundTrip ==
    [][ GetAfterPut => cache_ret'.res = Ok(cache_ret.value) ]_vars

\* the round trip through the same cache object alone
C10_RoundTripSameObject ==
    [][ (GetAfterPut /\ ~cache_ret.fresh) => cache_ret'.res = Ok(cache_ret.value) ]_vars

\* get_persistent of a fresh cache returned a value that is not the one put last
C10_Witness ==
    /\ cache_ret.op = "get_persistent"
    /\ cache_ret.fresh
    /\ cache_ret.value # None
    /\ cache_ret.res.ok
    /\ cache_ret.res.val # cache_ret.value

(***************************************************************************)
(* C11. Once the file of a key has been written, no later cache operation  *)
(* (insert, get, put, get_persistent) changes its bytes or deletes it.     *)
(***************************************************************************)
C11_DiskEntryImmutable ==
    [][ \A key \in DOMAIN disk :
            key \in DOMAIN disk' /\ disk'[key] = disk[key] ]_vars

\* the part that holds: no operation deletes a file, and only put writes one
C11_FilesNeverDeleted ==
    [][ /\ DOMAIN disk \subseteq DOMAIN disk'
        /\ disk' # disk => cache_ret'.op = "put" ]_vars

(***************************************************************************)
(* C12. get_persistent(K) resolves in the order memory, disk, not-found:   *)
(* if K is in the in-memory mapping it returns that value, whatever the    *)
(* file holds; otherwise, if the file of K exists, it returns the          *)
(* deserialized content of the file and the mapping then holds K with that *)
(* value (an error, and the mapping as it was, when the content does not   *)
(* deserialize); otherwise it returns not-found and leaves the mapping     *)
(* as it was. It never changes or creates a file.                          *)
(***************************************************************************)
\* the step is a call of get_persistent: it records one and the cache object
\* is not replaced
IsGetPersistent ==
    /\ cache_ret'.op = "get_persistent"
    /\ cache_ret'.fresh = cache_ret.fresh
    /\ DOMAIN cache_data \subseteq DOMAIN cache_data'

MetFault == "fault" \in DOMAIN cache_ret

C13_FailuresReturnedAsErrors ==
    MetFault => cache_ret.res = Err

\* the failures that are returned: metadata and write_all in put, open and
\* read_to_end in get_persistent
C13_ReturnedFailures ==
    (MetFault /\ \/ cache_ret.op = "put" /\ cache_ret.fault \in {"metadata", "write_all"}
                 \/ cache_ret.op = "get_persistent"
                      /\ cache_ret.fault \in {"open", "read_to_end"})
        => cache_ret.res = Err

\* put panicked on a failure to open the file, the value is in the mapping
C13_Witness ==
    /\ MetFault
    /\ cache_ret.op = "put"
    /\ cache_ret.fault = "open"
    /\ cache_ret.res = Panic
    /\ cache_ret.key \in DOMAIN cache_data

(***************************************************************************)
(* C14. Under every interleaving of put and get_persistent calls on one    *)
(* key by several threads of one process, no call returns an error or a    *)
(* value that was never put for the key, and once all calls have completed *)
(* the in-memory value of the key is the value of the put completed last.  *)
(***************************************************************************)
AllCompleted == \A t \in Threads : threads[t].pc = "idle"

C14_ConcurrentCallsConsistent ==
    /\ \A t \in Threads :
          /\ threads[t].ret # Some(Err)
          /\ \A v \in CompiledContracts :
                threads[t].ret = Some(Ok(Some(v))) => v \in put_log.started
    /\ (AllCompleted /\ put_log.last # None) =>
          /\ SharedKey \in DOMAIN cache_data
          /\ Some(cache_data[SharedKey]) = put_log.last

\* no call returns an error
C14_NoCallFails ==
    \A t \in Threads : threads[t].ret # Some(Err)

\* get_persistent never replaces the value of the mapping
C14_GetNeverReplaces ==
    [][ \A t \in Threads :
          (threads[t].pc = "get_insert" /\ SharedKey \in DOMAIN cache_data)
              => cache_data'[SharedKey] = cache_data[SharedKey] ]_vars

(***************************************************************************)
(* C15. Tearing down a block chain is iterative: when the last handle to a *)
(* chain of any length is released, ancestors are detached and released    *)
(* one per loop iteration, the nesting depth of Block::drop calls stays    *)
(* below a constant that does not depend on the length of the chain, and   *)
(* when the teardown is over and no handle is left no ancestor is left.    *)
(***************************************************************************)
C15_TeardownIterative ==
    [][ /\ Len(drop_stack') <= DropDepth
        /\ Cardinality(DOMAIN arcs') >= Cardinality(DOMAIN arcs) - 1
        /\ (drop_stack' = <<>> /\ DOMAIN owned' = {}) => DOMAIN arcs' = {} ]_vars

\* the loop has released a whole chain of MaxChain ancestors, the drop of the
\* last of them is in progress
C15_Witness ==
    /\ Len(drop_stack) = DropDepth
    /\ drop_stack[2].released = MaxChain
    /\ DOMAIN arcs = {}
    /\ DOMAIN owned = {}

(***************************************************************************)
(* C16. force_account_update changes only the state root of the current    *)
(* block and the stored state: block height, epoch height, timestamp and   *)
(* predecessor link of the current block, the transaction pool, the        *)
(* pending-receipt queue, the outcome map, the profile map and             *)
(* last_outcomes are unchanged by it, and what was stored stays stored.    *)
(***************************************************************************)
C16_ForceUpdateFrame ==
    [][ \A account_id \in Accounts, account \in AccountVals :
          ForceAccountUpdate(account_id, account) =>
            /\ cur_block' = [cur_block EXCEPT !.state_root = cur_block'.state_root]
            /\ tx_pool' = tx_pool
            /\ pending_receipts' = pending_receipts
            /\ outcomes' = outcomes
            /\ profile' = profile
            /\ last_outcomes' = last_outcomes
            /\ \A root \in DOMAIN tries :
                  root \in DOMAIN tries' /\ tries'[root] = tries[root] ]_vars

\* force_account_update was called on a produced block with transactions
\* pooled, receipts pending and outcomes recorded
C16_Witness ==
    /\ result.method = "force_account_update"
    /\ n_forced = 1
    /\ cur_block.prev_block # None
    /\ cur_block.state_root # cur_block.prev_block[1].state_root
    /\ tx_pool # {}
    /\ pending_receipts # <<>>
    /\ DOMAIN outcomes # {}

(***************************************************************************)
(* C17. Immediately after force_account_update(A, acct), view_account(A)   *)
(* returns acct, view_account of every other account returns what it       *)
(* returned before, and the current state root differs from the previous   *)
(* one if and only if acct differs from the record stored for A before.    *)
(***************************************************************************)
\* what view_account(account_id) returns in the state
Viewed(state_root, store, account_id) == store[state_root][account_id]

C17_ForceUpdateVisible ==
    [][ \A A \in Accounts, acct \in AccountVals :
          ForceAccountUpdate(A, acct) =>
            /\ Viewed(cur_block'.state_root, tries', A) = Some(acct)
            /\ \A other \in Accounts \ {A} :
                  Viewed(cur_block'.state_root, tries', other)
                      = Viewed(cur_block.state_root, tries, other)
            /\ (cur_block'.state_root # cur_block.state_root)
                  <=> (Some(acct) # Viewed(cur_block.state_root, tries, A)) ]_vars

\* view_account("root") returned a value that only force_account_update
\* writes, with the record of the other account written by a block
C17_Witness ==
    /\ result = Ret("view_account", "Some", MaxLocked, NoOutcome)
    /\ get_account("root") = Some(MaxLocked)
    /\ get_account("alice") # None
    /\ n_forced = 1

(***************************************************************************)
(* C18. view_method_call, view_account and view_access_key are read-only:  *)
(* a call leaves the current block (height, epoch height, timestamp, state *)
(* root), the stored state, the transaction pool, the pending-receipt      *)
(* queue and the outcome map unchanged.                                    *)
(***************************************************************************)
C18_ViewsReadOnly ==
    [][ \A account_id \in Accounts :
          (\/ ViewAccount(account_id)
           \/ ViewAccessKey(account_id)
           \/ ViewMethodCall(account_id)) =>
            /\ cur_block' = cur_block
            /\ tries' = tries
            /\ tx_pool' = tx_pool
            /\ pending_receipts' = pending_receipts
            /\ outcomes' = outcomes ]_vars

\* view_method_call returned a value with transactions pooled and receipts
\* pending
C18_Witness ==
    /\ result.method = "view_method_call"
    /\ result.kind = "Ok"
    /\ tx_pool # {}
    /\ pending_receipts # <<>>
    /\ DOMAIN outcomes # {}

(***************************************************************************)
(* C19. view_method_call can be invoked in every reachable state of the    *)
(* runtime, the one right after construction included, and returns a       *)
(* result (return bytes or a call-level error) instead of aborting.        *)
(***************************************************************************)
C19_ViewMethodCallReturns ==
    result.method = "view_method_call" => result.kind \in {"Ok", "Err"}

\* what holds: view_method_call returns once a block has been produced
C19_ReturnsAfterFirstBlock ==
    (result.method = "view_method_call" /\ n_blocks >= 1)
        => result.kind \in {"Ok", "Err"}

(***************************************************************************)
(* C20. send_tx(tx) records tx under its hash, adds it to the pool and     *)
(* returns the hash without producing a block: the current block, the      *)
(* pending-receipt queue, the outcome map and last_outcomes are unchanged, *)
(* and no outcome exists for the hash until a later produce_block: a       *)
(* pooled transaction has no outcome, and only a produced block adds       *)
(* outcomes.                                                               *)
(***************************************************************************)
C20_SendTxFrame ==
    [][ /\ \A tx \in TxIds :
              SendTx(tx) =>
                /\ transactions' = transactions \cup {tx}
                /\ tx \in tx_pool'
                /\ result' = Ret("send_tx", "Hash", tx, NoOutcome)
                /\ cur_block' = cur_block
                /\ n_blocks' = n_blocks
                /\ pending_receipts' = pending_receipts
                /\ outcomes' = outcomes
                /\ last_outcomes' = last_outcomes
                /\ tx \notin DOMAIN outcomes'
        /\ \A tx \in tx_pool' : tx \notin DOMAIN outcomes'
        /\ outcomes' # outcomes => n_blocks' = n_blocks + 1 ]_vars

\* send_tx returned the hash of a transaction that waits in the pool, with
\* receipts pending and outcomes recorded
C20_Witness ==
    /\ result.method = "send_tx"
    /\ result.id \in tx_pool
    /\ result.id \in transactions
    /\ result.id \notin DOMAIN outcomes
    /\ pending_receipts # <<>>
    /\ DOMAIN outcomes # {}

(***************************************************************************)
(* C21. State is threaded across blocks. Every produce_block hands the     *)
(* Engine the state root of the current block, a root installed by         *)
(* force_account_update since the last block included. After a successful  *)
(* produce_block the new current block carries the root the Engine         *)
(* returned: that root is committed in the store, and the state read under *)
(* it is the state under the root handed in with the writes of the block's *)
(* outcomes applied in order, which is what view_account then returns.     *)
(***************************************************************************)
RECURSIVE AppliedWrites(_, _)
AppliedWrites(state, outs) ==
    IF outs = <<>> THEN state
    ELSE LET o == Head(outs) IN
         AppliedWrites(IF o.id \notin TxIds /\ o.outcome.status.kind = "SuccessValue"
                       THEN [state EXCEPT !["alice"] = Some(o.id % (MaxLocked + 1))]
                       ELSE state,
                       Tail(outs))

C21_StateThreaded ==
    [][ /\ IsProduceBlock => last_apply'.state_root = cur_block.state_root
        /\ n_blocks' # n_blocks =>
             /\ last_apply'.ok
             /\ cur_block'.state_root \in DOMAIN tries'
             /\ RootOf(tries'[cur_block'.state_root]) = cur_block'.state_root
             /\ tries'[cur_block'.state_root] =
                  AppliedWrites(tries[cur_block.state_root], last_apply'.outcomes)
             /\ \A a \in Accounts :
                  get_account(a)' = Viewed(cur_block'.state_root, tries', a)
             /\ cur_block'.prev_block = Some(cur_block) ]_vars

\* a block was produced on top of a root installed by force_account_update,
\* the update and the block's own write are both visible under the new root
C21_Witness ==
    /\ result.method = "produce_block"
    /\ result.kind = "Ok"
    /\ last_apply.ok
    /\ n_forced = 1
    /\ cur_block.prev_block # None
    /\ cur_block.prev_block[1].prev_block # None
    /\ last_apply.state_root = cur_block.prev_block[1].state_root
    /\ last_apply.state_root # cur_block.prev_block[1].prev_block[1].state_root
    /\ cur_block.state_root # last_apply.state_root
    /\ tries[last_apply.state_root]["root"] # tries[cur_block.prev_block[1].prev_block[1].state_root]["root"]
    /\ get_account("root") = tries[last_apply.state_root]["root"]
    /\ get_account("alice") # tries[last_apply.state_root]["alice"]

(***************************************************************************)
(* C22. In every reachable state the predecessor links from the current    *)
(* block form a chain of exactly block_height - genesis_height ancestors   *)
(* that ends in a genesis block with no predecessor. Along the chain       *)
(* block_height decreases by 1 and block_timestamp by block_prod_time per  *)
(* link, gas_price and gas_limit are constant and gas_burnt is 0. The      *)
(* immediate predecessor is the current block as it was just before the    *)
(* block was produced, so it carries the state root the current block had  *)
(* then, a root installed by force_account_update included.                *)
(***************************************************************************)
\* block has exactly n ancestors, linked as Block::produce links them
RECURSIVE ChainOf(_, _)
ChainOf(block, n) ==
    /\ block.gas_burnt = 0
    /\ block.gas_price = genesis.gas_price
    /\ block.gas_limit = genesis.gas_limit
    /\ IF n = 0
       THEN /\ block.prev_block = None
            /\ block.block_height = genesis.genesis_height
            /\ block.block_timestamp = genesis.genesis_time
       ELSE /\ block.prev_block # None
            /\ LET prev == block.prev_block[1] IN
               /\ prev.block_height = block.block_height - 1
               /\ prev.block_timestamp =
                    block.block_timestamp - genesis.block_prod_time
               /\ prev.gas_price = block.gas_price
               /\ prev.gas_limit = block.gas_limit
               /\ ChainOf(prev, n - 1)

ChainInvariant ==
    /\ cur_block.block_height >= genesis.genesis_height
    /\ ChainOf(cur_block, cur_block.block_height - genesis.genesis_height)

C22_ChainOfAncestors ==
    [][ /\ ChainInvariant
        /\ ChainInvariant'
        /\ n_blocks' # n_blocks =>
             /\ cur_block'.prev_block # None
             /\ cur_block'.prev_block[1].state_root = cur_block.state_root
             /\ cur_block'.prev_block[1] = cur_block
        /\ n_blocks' = n_blocks =>
             cur_block'.prev_block = cur_block.prev_block ]_vars

\* a chain of two ancestors or more whose immediate predecessor carries a
\* root installed by force_account_update (the Engine never writes "root")
C22_Witness ==
    /\ n_blocks >= 2
    /\ cur_block.block_height = genesis.genesis_height + n_blocks
    /\ cur_block.prev_block # None
    /\ cur_block.prev_block[1].prev_block # None
    /\ tries[cur_block.prev_block[1].state_root]["root"] #
         tries[cur_block.prev_block[1].prev_block[1].state_root]["root"]

(***************************************************************************)
(* C23. After resolve_tx(tx) returns, last_outcomes lists the outcome ids  *)
(* produced by the call chain of tx: the list starts empty at the call and *)
(* only ids without an earlier outcome are pushed, so it contains no id    *)
(* recorded before the call started; and every id in it is the hash of tx  *)
(* or the id of a receipt that descends from tx, even when other           *)
(* transactions or receipts were pending when resolve_tx was called.       *)
(***************************************************************************)
\* last_outcomes grows by ids that had no outcome yet
PushesFreshIds ==
    /\ Len(last_outcomes') >= Len(last_outcomes)
    /\ SubSeq(last_outcomes', 1, Len(last_outcomes)) = last_outcomes
    /\ \A i \in Len(last_outcomes) + 1 .. Len(last_outcomes') :
          /\ last_outcomes'[i] \notin DOMAIN outcomes
          /\ last_outcomes'[i] \in DOMAIN outcomes'

C23_LastOutcomesOfChain ==
    [][ /\ \A tx \in TxIds : ResolveTx(tx) => last_outcomes' = <<>>
        /\ op = "resolve_tx" => PushesFreshIds
        /\ (op = "resolve_tx" /\ op' = "idle") =>
              \A id \in Range(last_outcomes') : Linked(call.tx, id, LastId)' ]_vars

\* what the code keeps: the ids of all outcomes recorded while the call ran
C23_LastOutcomesSinceCall ==
    [][ /\ \A tx \in TxIds : ResolveTx(tx) => last_outcomes' = <<>>
        /\ op = "resolve_tx" => PushesFreshIds
        /\ (op = "resolve_tx" /\ op' = "idle" /\ result'.kind = "Ok") =>
              \E i \in 1..Len(last_outcomes') : last_outcomes'[i] = call.tx ]_vars

(***************************************************************************)
(* C24. No submitted transaction is silently dropped: in every reachable   *)
(* state each transaction recorded by send_tx or resolve_tx is still in    *)
(* the transaction pool or has an outcome recorded under its hash, also    *)
(* after a produce_block in which the Engine returned an error.            *)
(***************************************************************************)
C24_NoTransactionDropped ==
    \A tx \in transactions : tx \in tx_pool \/ tx \in DOMAIN outcomes

\* as long as no Engine call failed, every transaction is accounted for
C24_NoneDroppedWithoutError ==
    errors = 0 => \A tx \in transactions : tx \in tx_pool \/ tx \in DOMAIN outcomes

(***************************************************************************)
(* C25. resolve_tx never raises the lost-outcome fatal condition while the *)
(* transaction it resolves is still waiting in the pool, for example       *)
(* behind an earlier transaction of the same sender lane submitted with    *)
(* send_tx: the condition is only raised after the transaction has been    *)
(* handed to the Engine, by a block produced during the call.              *)
(***************************************************************************)
C25_LostOnlyAfterHandedOver ==
    [][ (op = "resolve_tx" /\ RaisesLostOutcome) =>
            /\ call.tx \notin tx_pool'
            /\ call.tx \in DOMAIN outcomes'
            /\ call.tx \in Range(last_outcomes')
            /\ outcome_hash # call.tx ]_vars

\* resolve_tx panicked on a transaction that was submitted behind an earlier
\* transaction of the same lane; both were handed to the Engine during the call
C25_Witness ==
    /\ op = "halted"
    /\ result.kind = "PanicLostOutcome"
    /\ call.tx \notin tx_pool
    /\ \E tx \in transactions :
          /\ tx < call.tx
          /\ SignerOf(tx) = SignerOf(call.tx)
          /\ tx \in Range(last_outcomes)
          /\ call.tx \in Range(last_outcomes)

(***************************************************************************)
(* C26. Releasing one handle to a block never destroys or alters an        *)
(* ancestor that is still reachable from another live handle: teardown     *)
(* stops at the first ancestor that is still shared, every block reachable *)
(* from a live handle keeps its full predecessor chain, and every ancestor *)
(* that is no longer reachable from any live handle is released.           *)
(***************************************************************************)
\* the ancestors reached from prev in store, nearest first; 0 stands for an
\* ancestor that is gone
RECURSIVE ChainSeq(_, _, _)
ChainSeq(prev, store, n) ==
    IF prev = None \/ n = 0 THEN <<>>
    ELSE IF prev[1] \notin DOMAIN store THEN <<0>>
    ELSE <<prev[1]>> \o ChainSeq(store[prev[1]].prev, store, n - 1)

\* the ancestors reachable from the live handles
LiveArcs(handles, store) ==
    UNION { Range(ChainSeq(handles[o], store, MaxChain + 1)) : o \in DOMAIN handles }

\* strong references to ancestor a: handles, successors, drops in progress
Referrers(a) ==
    Cardinality({o \in DOMAIN owned : owned[o] = Some(a)})
    + Cardinality({b \in DOMAIN arcs : arcs[b].prev = Some(a)})
    + Cardinality({i \in 1..Len(drop_stack) : drop_stack[i].curr = Some(a)})

C26_SharedAncestorsKept ==
    [][ /\ 0 \notin LiveArcs(owned', arcs')
        /\ \A a \in DOMAIN arcs' : arcs'[a].rc = Referrers(a)'
        /\ (drop_stack # <<>> \/ drop_stack' # <<>>) =>
              /\ \A o \in DOMAIN owned' :
                    /\ owned'[o] = owned[o]
                    /\ ChainSeq(owned'[o], arcs', MaxChain + 1) =
                         ChainSeq(owned[o], arcs, MaxChain + 1)
              /\ \A a \in LiveArcs(owned', arcs) :
                    a \in DOMAIN arcs' /\ arcs'[a].prev = arcs[a].prev
        /\ drop_stack' = <<>> => DOMAIN arcs' = LiveArcs(owned', arcs') ]_vars

\* the runtime's block was released while a clone of an older block lives:
\* the loop released two ancestors and stopped at the one the clone shares
C26_Witness ==
    /\ drop_stack # <<>>
    /\ Head(drop_stack).curr = None
    /\ Head(drop_stack).released >= 2
    /\ DOMAIN owned = {"clone"}
    /\ owned["clone"] # None
    /\ Cardinality(DOMAIN arcs) >= 2
    /\ DOMAIN arcs = LiveArcs(owned, arcs)

====
